---- MODULE Spec2Model ----
(***************************************************************************)
(* A model of enigma.py: the plugboard / rotor / reflector substitution    *)
(* chain, the pawl-and-ratchet stepping mechanism and the configuration    *)
(* save / load of the Enigma class.                                        *)
(*                                                                         *)
(* Mappings are functions over 0 .. ALPHABET_SIZE-1 (Python's 0-based      *)
(* lists and deques).  Rotors are indexed 0 .. n-1 as in the source.       *)
(* A call that raises is recorded with the exception's name as its status. *)
(***************************************************************************)
EXTENDS Integers, Sequences, FiniteSets

\* consts.ALPHABET_SIZE, scaled down from the 26 letters 'a'..'z'.
ALPHABET_SIZE == 4

\* consts.NUM_ROTORS.
NUM_ROTORS == 3

\* randint(1, 10) of getRandomPlugboardString.
MinNumPairs == 1

MaxNumPairs == 10

\* consts.ALPHABET_UNIVERSE
ALPHABET_UNIVERSE == 0 .. (ALPHABET_SIZE - 1)

VARIABLES
  disc,            \* RotorDisc.__mapping of each rotor: [0..n-1 -> mapping]
  notch,           \* AlphabetRing.__notch of each rotor
  ringstellung,    \* Rotor.__ringstellung of each rotor
  reflector,       \* Reflector.__mapping
  plugboard,       \* Plugboard.__mapping
  plugStr,         \* Plugboard.__str, as the sequence of its two-letter keys
  rotation_count,  \* PawlAndRatchetMechanism._rotation_count: [0..n-2 -> count]
  config,          \* Enigma._config: the ConfigParser's sections, keys and values
  cfgFile,         \* the configuration file on disk, or NoFile
  saved,           \* the machine as it was when the file was last written
  last,            \* the last call made on the machine and how it ended
  session          \* an encode / reset / re-encode session typed on the machine,
                   \* or a run of Rotor.rotate calls on one rotor

vars == <<disc, notch, ringstellung, reflector, plugboard, plugStr,
          rotation_count, config, cfgFile, saved, last, session>>

\* What the keystroke operations leave alone.
static == <<notch, ringstellung, reflector, plugboard, plugStr>>

\* The configuration in memory and on disk.
store == <<config, cfgFile, saved>>

----------------------------------------------------------------------------
\* Outcomes of a call: a returned value, or a raised exception.

NoValue == 0 - 1

\* No configuration file on disk.
NoFile == [present |-> FALSE, content |-> {}]

\* No machine has written the file yet.
NotSaved == [written |-> FALSE, disc |-> <<>>, notch |-> <<>>,
             ringstellung |-> <<>>, reflector |-> <<>>, plugboard |-> <<>>]

Ok(v) == [status |-> "ok", value |-> v]

Raise(e) == [status |-> e, value |-> NoValue]

\* randomNumber(): randint(0, ALPHABET_SIZE), both ends included.
randomNumber == 0 .. ALPHABET_SIZE

\* All bijections of the alphabet onto itself: what shuffle() can leave.
Bijections == { p \in [ALPHABET_UNIVERSE -> ALPHABET_UNIVERSE] :
                    \A i, j \in ALPHABET_UNIVERSE : p[i] = p[j] => i = j }

IdentityMapping == [x \in ALPHABET_UNIVERSE |-> x]

\* The letters 'a' .. 'z'.
Letters == << "a", "b", "c", "d", "e", "f", "g", "h", "i", "j", "k", "l", "m",
              "n", "o", "p", "q", "r", "s", "t", "u", "v", "w", "x", "y", "z" >>

\* numberToChar: chr(ord('a') + number)
numberToChar(number) == Letters[number + 1]

\* charToNumber: ord(char) - ord('a')
charToNumber(char) == (CHOOSE k \in DOMAIN Letters : Letters[k] = char) - 1

----------------------------------------------------------------------------
\* Plugboard

\* getRandomPlugboardString, for numPairs pairs out of the letters of
\* `letters' (the deque): after each shuffle the two popped letters are any
\* two different letters still in the deque.  popleft on an empty deque
\* raises, so no string comes out when the letters run out.
RECURSIVE PlugboardStrings(_, _)
PlugboardStrings(letters, numPairs) ==
  IF numPairs = 0 THEN { <<>> }
  ELSE UNION { UNION { { << <<numberToChar(numA), numberToChar(numB)>> >> \o rest :
                           rest \in PlugboardStrings(letters \ {numA, numB},
                                                     numPairs - 1) } :
                       numB \in letters \ {numA} } :
               numA \in letters }

getRandomPlugboardString ==
  UNION { PlugboardStrings(ALPHABET_UNIVERSE, numPairs) :
            numPairs \in MinNumPairs .. MaxNumPairs }

\* Plugboard.__connect without the back link: a one-way wire.
ConnectOneWay(mapping, keyA, keyB) ==
  [mapping EXCEPT ![charToNumber(keyA)] = charToNumber(keyB)]

\* Plugboard.__connect
Connect(mapping, keyA, keyB) ==
  [mapping EXCEPT ![charToNumber(keyA)] = charToNumber(keyB),
                  ![charToNumber(keyB)] = charToNumber(keyA)]

\* Plugboard.__setup: connect every key pair of the string, in order.
RECURSIVE PlugboardSetup(_, _)
PlugboardSetup(mapping, str) ==
  IF str = <<>> THEN mapping
  ELSE PlugboardSetup(Connect(mapping, str[1][1], str[1][2]), Tail(str))

\* Plugboard.get: a Python list lookup, which accepts -len .. len-1.
PlugboardGet(mapping, num) ==
  IF num \in ALPHABET_UNIVERSE THEN Ok(mapping[num])
  ELSE IF num < 0 /\ num + ALPHABET_SIZE \in ALPHABET_UNIVERSE
       THEN Ok(mapping[num + ALPHABET_SIZE])
       ELSE Raise("IndexError")

----------------------------------------------------------------------------
\* Disc, reflector, rotor

\* RotorDisc.rotate as a left shift (the element at index 0 goes to the end).
DiscRotateLeft(mapping) ==
  [i \in ALPHABET_UNIVERSE |-> mapping[(i + 1) % ALPHABET_SIZE]]

\* RotorDisc.rotate that shifts to the right without bringing the last
\* element round: index 0 keeps its element.
DiscRotateNoWrap(mapping) ==
  [i \in ALPHABET_UNIVERSE |-> IF i = 0 THEN mapping[0] ELSE mapping[i - 1]]

\* RotorDisc.rotate that leaves the last element in place and rotates the
\* others.
DiscRotateAllButLast(mapping) ==
  [i \in ALPHABET_UNIVERSE |->
     IF i = ALPHABET_SIZE - 1 THEN mapping[i]
     ELSE mapping[(i + ALPHABET_SIZE - 2) % (ALPHABET_SIZE - 1)]]

\* RotorDisc.rotate: deque.rotate(1) moves every element one place to the
\* right; the last element comes to index 0.
DiscRotate(mapping) ==
  [i \in ALPHABET_UNIVERSE |-> mapping[(i + ALPHABET_SIZE - 1) % ALPHABET_SIZE]]

\* RotorDisc.get
DiscGet(mapping, num) ==
  IF num \notin ALPHABET_UNIVERSE THEN Raise("AssertionError")
  ELSE Ok(mapping[num])

\* Reflector.get
ReflectorGet(mapping, num) ==
  IF num \notin ALPHABET_UNIVERSE THEN Raise("AssertionError")
  ELSE Ok(mapping[num])

\* Rotor.get
RotorGet(mapping, ring, num) ==
  DiscGet(mapping, (num + ring) % ALPHABET_SIZE)

----------------------------------------------------------------------------
\* PawlAndRatchetMechanism

\* The number of rotors of the assembly (self._n).
NumRotors(d) == Cardinality(DOMAIN d)

\* PawlAndRatchetMechanism.__init__: one counter for every rotor but the last.
InitialRotationCount(n) == [idx \in 0 .. (n - 2) |-> 0]

\* pending_rotations with the counter of rotor idx-1 compared to the notch
\* of rotor idx itself.
PendingRotationsOwnNotch(rc, nt, n) ==
  [idx \in 0 .. (n - 1) |->
     idx = 0 \/ (idx >= 1 /\ rc[idx - 1] = nt[idx])]

\* pending_rotations of PawlAndRatchetMechanism.rotate: rotor 0 always, rotor
\* idx when the counter of rotor idx-1 equals the notch of rotor idx-1.
PendingRotations(rc, nt, n) ==
  [idx \in 0 .. (n - 1) |->
     idx = 0 \/ (idx >= 1 /\ rc[idx - 1] = nt[idx - 1])]

\* PawlAndRatchetMechanism.__rotate_rotor that rotates the disc and leaves
\* the counter as it is.
RotateRotorDiscOnly(st, index) ==
  IF index \notin DOMAIN st.rc
  THEN [st EXCEPT !.status = "IndexError"]
  ELSE [st EXCEPT !.disc[index] = DiscRotate(st.disc[index])]

\* PawlAndRatchetMechanism.__rotate_rotor: the counter is read first, and
\* _rotation_count has no entry for the last rotor, so the read raises
\* IndexError there before the disc is rotated.
RotateRotor(st, index) ==
  IF index \notin DOMAIN st.rc
  THEN [st EXCEPT !.status = "IndexError"]
  ELSE [st EXCEPT !.rc[index] = (st.rc[index] + 1) % ALPHABET_SIZE,
                  !.disc[index] = DiscRotate(st.disc[index])]

\* The loop "for idx, pending in enumerate(pending_rotations)": an exception
\* ends it, the rotations already made stay.
RECURSIVE PerformRotations(_, _, _)
PerformRotations(st, pending, idx) ==
  IF idx \notin DOMAIN pending \/ st.status # "ok" THEN st
  ELSE PerformRotations(IF pending[idx] THEN RotateRotor(st, idx) ELSE st,
                        pending, idx + 1)

\* PawlAndRatchetMechanism.rotate on discs d, counters rc and notches nt:
\* the discs and counters afterwards, and "ok" or the exception raised.
PrmRotate(d, rc, nt) ==
  PerformRotations([disc |-> d, rc |-> rc, status |-> "ok"],
                   PendingRotations(rc, nt, NumRotors(d)), 0)

----------------------------------------------------------------------------
\* RotorAssembly

\* obj_list of RotorAssembly.get: the rotors, the reflector, the rotors
\* reversed.  A rotor stage is its index, the reflector stage is -1.
ReflectorStage == 0 - 1

\* obj_list with the reversed rotors first: the rotors reversed, the
\* reflector, the rotors.
ObjListReversedFirst(n) ==
  [k \in 1 .. (2 * n + 1) |->
     IF k <= n THEN n - k
     ELSE IF k = n + 1 THEN ReflectorStage
     ELSE k - n - 2]

ObjList(n) ==
  [k \in 1 .. (2 * n + 1) |->
     IF k <= n THEN k - 1
     ELSE IF k = n + 1 THEN ReflectorStage
     ELSE 2 * n + 1 - k]

StageGet(d, rg, rf, stage, value) ==
  IF stage = ReflectorStage THEN ReflectorGet(rf, value)
  ELSE RotorGet(d[stage], rg[stage], value)

\* apply(value, idx) of RotorAssembly.get; an exception in a stage
\* propagates.
RECURSIVE Apply(_, _, _, _, _, _)
Apply(d, rg, rf, objs, out, idx) ==
  IF out.status # "ok" \/ idx > Len(objs) THEN out
  ELSE Apply(d, rg, rf, objs, StageGet(d, rg, rf, objs[idx], out.value), idx + 1)

\* The value RotorAssembly.get computes for num before it steps.
SignalPath(d, rg, rf, num) ==
  Apply(d, rg, rf, ObjList(NumRotors(d)), Ok(num), 1)

\* RotorAssembly.get stepping first and substituting afterwards.
RotorAssemblyGetStepFirst(d, rc, nt, rg, rf, num) ==
  LET st  == PrmRotate(d, rc, nt)
      out == SignalPath(st.disc, rg, rf, num)
  IN  IF st.status # "ok"
      THEN [disc |-> st.disc, rc |-> st.rc, out |-> Raise(st.status)]
      ELSE [disc |-> st.disc, rc |-> st.rc, out |-> out]

\* RotorAssembly.get: the substitution, then one step of the mechanism, then
\* the return.  An exception in the substitution leaves before the step; an
\* exception in the step leaves without a value, after the rotations made.
RotorAssemblyGet(d, rc, nt, rg, rf, num) ==
  LET out == SignalPath(d, rg, rf, num)
      st  == PrmRotate(d, rc, nt)
  IN  IF out.status # "ok"
      THEN [disc |-> d, rc |-> rc, out |-> out]
      ELSE IF st.status # "ok"
           THEN [disc |-> st.disc, rc |-> st.rc, out |-> Raise(st.status)]
           ELSE [disc |-> st.disc, rc |-> st.rc, out |-> out]

----------------------------------------------------------------------------
\* Enigma

\* Enigma.get: plugboard, rotor assembly, plugboard.
EnigmaGet(pb, d, rc, nt, rg, rf, num) ==
  LET in == PlugboardGet(pb, num)
  IN  IF in.status # "ok"
      THEN [disc |-> d, rc |-> rc, out |-> in]
      ELSE LET asm == RotorAssemblyGet(d, rc, nt, rg, rf, in.value)
           IN  IF asm.out.status # "ok" THEN asm
               ELSE [asm EXCEPT !.out = PlugboardGet(pb, asm.out.value)]

----------------------------------------------------------------------------
\* Construction

\* RotorAssembly.__init__ and Plugboard.__init__ with the parts drawn from
\* the given sets: the rotors' discs from discs and their notches from
\* notches (each a function over the rotor indices 0 .. n-1), one ring
\* setting from rings for all rotors (the default argument of Rotor.__init__
\* is evaluated once, when the class is defined), a reflector from
\* reflectors, a plugboard set up from a string of strs, all counters 0.
Construct(discs, notches, rings, reflectors, strs) ==
  /\ disc \in discs
  /\ notch \in { nt \in notches : DOMAIN nt = DOMAIN disc }
  /\ \E r \in rings : ringstellung = [idx \in DOMAIN disc |-> r]
  /\ reflector \in reflectors
  /\ plugStr \in strs
  /\ plugboard = PlugboardSetup(IdentityMapping, plugStr)
  /\ rotation_count = InitialRotationCount(NumRotors(disc))
  /\ config = {}

NoCall == [op |-> "none", idx |-> NoValue, num |-> NoValue,
           status |-> "ok", value |-> NoValue]

Call(op, idx, num, out) ==
  [op |-> op, idx |-> idx, num |-> num, status |-> out.status, value |-> out.value]

NoSession == [phase |-> "none", start |-> <<>>, plain |-> <<>>,
              cipher |-> <<>>, decoded |-> <<>>]

----------------------------------------------------------------------------
\* The calls

\* The numbers handed to the get calls: the alphabet, and on either side of
\* it a negative number and ALPHABET_SIZE itself.
Inputs == (0 - 1) .. ALPHABET_SIZE

\* Enigma.get(num)
EnigmaGetCall(num) ==
  \E r \in { EnigmaGet(plugboard, disc, rotation_count, notch, ringstellung,
                       reflector, num) } :
    /\ disc' = r.disc
    /\ rotation_count' = r.rc
    /\ last' = Call("Enigma.get", NoValue, num, r.out)
    /\ UNCHANGED <<static, store, session>>

\* RotorAssembly.get(num)
RotorAssemblyGetCall(num) ==
  \E r \in { RotorAssemblyGet(disc, rotation_count, notch, ringstellung,
                              reflector, num) } :
    /\ disc' = r.disc
    /\ rotation_count' = r.rc
    /\ last' = Call("RotorAssembly.get", NoValue, num, r.out)
    /\ UNCHANGED <<static, store, session>>

\* RotorAssembly.rotate()
RotorAssemblyRotateCall ==
  \E st \in { PrmRotate(disc, rotation_count, notch) } :
    /\ disc' = st.disc
    /\ rotation_count' = st.rc
    /\ last' = Call("RotorAssembly.rotate", NoValue, NoValue,
                    IF st.status = "ok" THEN Ok(NoValue) ELSE Raise(st.status))
    /\ UNCHANGED <<static, store, session>>

\* Plugboard.get(num), Reflector.get(num), Rotor.get(num) and
\* RotorDisc.get(num) called on their own: no state of the machine changes.
PlugboardGetCall(num) ==
  /\ last' = Call("Plugboard.get", NoValue, num, PlugboardGet(plugboard, num))
  /\ UNCHANGED <<disc, rotation_count, static, store, session>>

ReflectorGetCall(num) ==
  /\ last' = Call("Reflector.get", NoValue, num, ReflectorGet(reflector, num))
  /\ UNCHANGED <<disc, rotation_count, static, store, session>>

RotorGetCall(idx, num) ==
  /\ last' = Call("Rotor.get", idx, num,
                  RotorGet(disc[idx], ringstellung[idx], num))
  /\ UNCHANGED <<disc, rotation_count, static, store, session>>

DiscGetCall(idx, num) ==
  /\ last' = Call("RotorDisc.get", idx, num, DiscGet(disc[idx], num))
  /\ UNCHANGED <<disc, rotation_count, static, store, session>>

\* Rotor.rotate() on rotor idx, which is RotorDisc.rotate().
RotorRotateCall(idx) ==
  /\ disc' = [disc EXCEPT ![idx] = DiscRotate(disc[idx])]
  /\ last' = Call("Rotor.rotate", idx, NoValue, Ok(NoValue))
  /\ UNCHANGED <<rotation_count, static, store, session>>

----------------------------------------------------------------------------
\* Configuration: saveCfg and loadCfg.
\*
\* A ConfigParser is the set of its <<section, key, value>> entries.  A
\* value is the sequence of the tokens of its text, a token the sequence of
\* its characters: str(7) is the one token <<"7">>, dumps([2, 10]) the
\* tokens <<"2">>, <<"1", "0">>, the plugboard settings "bc da" the tokens
\* <<"b", "c">>, <<"d", "a">>.

Digits == << "0", "1", "2", "3", "4", "5", "6", "7", "8", "9" >>

\* str(n) for n >= 0
RECURSIVE IntToStr(_)
IntToStr(n) ==
  IF n < Len(Digits) THEN << Digits[n + 1] >>
  ELSE IntToStr(n \div Len(Digits)) \o << Digits[(n % Len(Digits)) + 1] >>

\* int(s) for a string of digits
RECURSIVE StrToInt(_)
StrToInt(s) ==
  IF s = <<>> THEN 0
  ELSE StrToInt(SubSeq(s, 1, Len(s) - 1)) * Len(Digits)
         + ((CHOOSE k \in DOMAIN Digits : Digits[k] = s[Len(s)]) - 1)

\* dumps(list(mapping))
Dumps(mapping) ==
  [k \in 1 .. Cardinality(DOMAIN mapping) |-> IntToStr(mapping[k - 1])]

\* loads(text): the list, indexed from 0
Loads(tokens) ==
  [i \in 0 .. (Len(tokens) - 1) |-> StrToInt(tokens[i + 1])]

\* "Rotor_{0}".format(idx + 1)
RotorSectionName(idx) ==
  << "Rotor_1", "Rotor_2", "Rotor_3", "Rotor_4", "Rotor_5" >>[idx + 1]

\* cfg.sections()
Sections(cfg) == { t[1] : t \in cfg }

HasOption(cfg, section, key) ==
  \E t \in cfg : t[1] = section /\ t[2] = key

\* cfg[section][key]
GetOption(cfg, section, key) ==
  (CHOOSE t \in cfg : t[1] = section /\ t[2] = key)[3]

\* cfg[section][key] = value
SetOption(cfg, section, key, value) ==
  { t \in cfg : ~(t[1] = section /\ t[2] = key) } \cup { <<section, key, value>> }

\* ConfigParser.read: the file's entries go over those in memory.
ReadInto(cfg, content) ==
  { t \in cfg : ~HasOption(content, t[1], t[2]) } \cup content

\* Rotor.saveCfg without the notch of the ring.
RotorSaveCfgNoNotch(cfg, section, mapping, nt, ring) ==
  SetOption(
    SetOption(cfg, section, "ringstellung", << IntToStr(ring) >>),
    section, "config", Dumps(mapping))

\* Rotor.saveCfg: the ring setting, the disc (RotorDisc.saveCfg), the notch
\* (AlphabetRing.saveCfg).  ConfigParser keeps option names in lower case.
RotorSaveCfg(cfg, section, mapping, nt, ring) ==
  SetOption(
    SetOption(
      SetOption(cfg, section, "ringstellung", << IntToStr(ring) >>),
      section, "config", Dumps(mapping)),
    section, "notch", << IntToStr(nt) >>)

\* RotorAssembly.saveCfg: the reflector (Reflector.saveCfg), then each rotor.
RECURSIVE RotorsSaveCfg(_, _, _, _, _)
RotorsSaveCfg(cfg, d, nt, rg, idx) ==
  IF idx \notin DOMAIN d THEN cfg
  ELSE RotorsSaveCfg(
         RotorSaveCfg(cfg, RotorSectionName(idx), d[idx], nt[idx], rg[idx]),
         d, nt, rg, idx + 1)

RotorAssemblySaveCfg(cfg, d, nt, rg, rf) ==
  RotorsSaveCfg(SetOption(cfg, "Reflector", "config", Dumps(rf)), d, nt, rg, 0)

\* Enigma.saveCfg up to the write: the rotor assembly, then the plugboard
\* (Plugboard.saveCfg writes its string).
EnigmaSaveCfg(cfg, d, nt, rg, rf, str) ==
  SetOption(RotorAssemblySaveCfg(cfg, d, nt, rg, rf),
            "Plugboard", "settings", str)

\* Rotor.loadCfg on the machine parts m: the ring setting, the disc
\* (RotorDisc.loadCfg), the notch (AlphabetRing.loadCfg), each installed as
\* it is read; a missing section or option raises KeyError there.
RotorLoadCfg(m, cfg, section, idx) ==
  IF ~HasOption(cfg, section, "ringstellung")
  THEN [m EXCEPT !.status = "KeyError"]
  ELSE LET m1 == [m EXCEPT !.ringstellung[idx] =
                     StrToInt(GetOption(cfg, section, "ringstellung")[1])]
       IN  IF ~HasOption(cfg, section, "config")
           THEN [m1 EXCEPT !.status = "KeyError"]
           ELSE LET m2 == [m1 EXCEPT !.disc[idx] =
                             Loads(GetOption(cfg, section, "config"))]
                IN  IF ~HasOption(cfg, section, "notch")
                    THEN [m2 EXCEPT !.status = "KeyError"]
                    ELSE [m2 EXCEPT !.notch[idx] =
                            StrToInt(GetOption(cfg, section, "notch")[1])]

RECURSIVE RotorsLoadCfg(_, _, _)
RotorsLoadCfg(m, cfg, idx) ==
  IF idx \notin DOMAIN m.disc \/ m.status # "ok" THEN m
  ELSE RotorsLoadCfg(RotorLoadCfg(m, cfg, RotorSectionName(idx), idx),
                     cfg, idx + 1)

\* RotorAssembly.loadCfg: the reflector if the section is there
\* (Reflector.loadCfg), then each rotor.  The plugboard is not loaded.
RotorAssemblyLoadCfg(m, cfg) ==
  IF "Reflector" \notin Sections(cfg) THEN RotorsLoadCfg(m, cfg, 0)
  ELSE IF ~HasOption(cfg, "Reflector", "config")
       THEN [m EXCEPT !.status = "KeyError"]
       ELSE RotorsLoadCfg(
              [m EXCEPT !.reflector = Loads(GetOption(cfg, "Reflector", "config"))],
              cfg, 0)

\* Enigma.saveCfg(configFilePath)
SaveCfgCall ==
  /\ config' = EnigmaSaveCfg(config, disc, notch, ringstellung, reflector,
                             plugStr)
  /\ cfgFile' = [present |-> TRUE, content |-> config']
  /\ saved' = [written |-> TRUE, disc |-> disc, notch |-> notch,
               ringstellung |-> ringstellung, reflector |-> reflector,
               plugboard |-> plugboard]
  /\ last' = Call("Enigma.saveCfg", NoValue, NoValue, Ok(NoValue))
  /\ UNCHANGED <<disc, rotation_count, static, session>>

\* Enigma.loadCfg when isConfigFilePresent is false: nothing is done.
LoadCfgNoFile ==
  /\ last' = Call("Enigma.loadCfg", NoValue, NoValue, Ok(NoValue))
  /\ UNCHANGED <<disc, rotation_count, static, store, session>>

\* Enigma.loadCfg past the test for the file: the content is read into the
\* ConfigParser and the rotor assembly loaded from it.
LoadCfgFrom(content) ==
  /\ config' = ReadInto(config, content)
  /\ \E m \in { RotorAssemblyLoadCfg(
                  [disc |-> disc, notch |-> notch,
                   ringstellung |-> ringstellung,
                   reflector |-> reflector, status |-> "ok"],
                  config') } :
       /\ disc' = m.disc
       /\ notch' = m.notch
       /\ ringstellung' = m.ringstellung
       /\ reflector' = m.reflector
       /\ last' = Call("Enigma.loadCfg", NoValue, NoValue,
                       IF m.status = "ok" THEN Ok(NoValue)
                       ELSE Raise(m.status))
  /\ UNCHANGED <<plugboard, plugStr, cfgFile, saved, session>>

\* Enigma.loadCfg without the test for the file: ConfigParser.read passes
\* over a missing file and the rotor assembly is loaded from what the
\* ConfigParser holds.
LoadCfgCallUnguarded ==
  LoadCfgFrom(cfgFile.content) /\ UNCHANGED rotation_count

\* Enigma.loadCfg that sets up the mechanism anew after the load.
LoadCfgCallNewMechanism ==
  IF ~cfgFile.present THEN LoadCfgNoFile
  ELSE /\ LoadCfgFrom(cfgFile.content)
       /\ rotation_count' = InitialRotationCount(NumRotors(disc))

\* Enigma.loadCfg(configFilePath): nothing if there is no file, else the
\* file is read into the ConfigParser and the rotor assembly loaded from it.
\* The mechanism and its counters are not touched.
LoadCfgCall ==
  IF ~cfgFile.present THEN LoadCfgNoFile
  ELSE LoadCfgFrom(cfgFile.content) /\ UNCHANGED rotation_count

\* The file at configFilePath is written by something other than saveCfg
\* (an editor, another program): whatever it holds is what loadCfg reads.
ExternalWrite(content) ==
  /\ cfgFile' = [present |-> TRUE, content |-> content]
  /\ saved' = NotSaved
  /\ last' = Call("file written", NoValue, NoValue, Ok(NoValue))
  /\ UNCHANGED <<disc, rotation_count, static, config, session>>

\* A new process constructs its Enigma: a fresh machine out of the given
\* parts, an empty ConfigParser; the file on disk stays.
NewEnigma(discs, notches, rings, reflectors, strs) ==
  /\ disc' \in discs
  /\ notch' \in { nt \in notches : DOMAIN nt = DOMAIN disc' }
  /\ \E r \in rings : ringstellung' = [idx \in DOMAIN disc' |-> r]
  /\ reflector' \in reflectors
  /\ plugStr' \in strs
  /\ plugboard' = PlugboardSetup(IdentityMapping, plugStr')
  /\ rotation_count' = InitialRotationCount(NumRotors(disc'))
  /\ config' = {}
  /\ last' = Call("Enigma", NoValue, NoValue, Ok(NoValue))
  /\ UNCHANGED <<cfgFile, saved, session>>

----------------------------------------------------------------------------
\* The machines explored.  shuffle() can leave any bijection in a disc or in
\* the reflector and randomNumber() any of 0 .. ALPHABET_SIZE in a notch or
\* the ring setting; the specifications draw from these of them.

\* (0 1)(2 3)...: every letter swapped with its neighbour.
PairSwapMapping ==
  [x \in ALPHABET_UNIVERSE |->
     IF x % 2 = 1 THEN x - 1
     ELSE IF x + 1 \in ALPHABET_UNIVERSE THEN x + 1 ELSE x]

\* 0 -> 2 -> 3 -> ... -> 0 with 1 left in place: not its own inverse.
ScrambledMapping ==
  [x \in ALPHABET_UNIVERSE |->
     IF x = 0 THEN 2 % ALPHABET_SIZE
     ELSE IF x = 1 THEN 1
     ELSE (x + 1) % ALPHABET_SIZE]

RotorIndices == 0 .. (NUM_ROTORS - 1)

\* Scrambled discs throughout, or with an identity disc in the middle.
DiscChoices ==
  { [idx \in RotorIndices |-> ScrambledMapping],
    [idx \in RotorIndices |->
       IF idx = 1 THEN IdentityMapping ELSE ScrambledMapping] }

\* Turnover at once, after one step, or never.
NotchChoices ==
  { nt \in [RotorIndices -> {0, 1, ALPHABET_SIZE}] : nt[NUM_ROTORS - 1] # 1 }

RingChoices == {1}

ReflectorChoices == {PairSwapMapping, ScrambledMapping}

\* One string of one pair and one of two pairs: "bc" and "bc da".
PlugboardChoices ==
  { str \in getRandomPlugboardString :
      \A k \in 1 .. Len(str) :
         str[k] = <<numberToChar(2 * k - 1),
                    numberToChar((2 * k) % ALPHABET_SIZE)>> }

----------------------------------------------------------------------------
\* Keystrokes on a constructed machine.

Init ==
  /\ Construct(DiscChoices, NotchChoices, RingChoices, ReflectorChoices,
               PlugboardChoices)
  /\ cfgFile = NoFile
  /\ saved = NotSaved
  /\ last = NoCall
  /\ session = NoSession

Next ==
  \/ \E num \in Inputs : EnigmaGetCall(num)
  \/ \E num \in Inputs : RotorAssemblyGetCall(num)
  \/ RotorAssemblyRotateCall

Spec == Init /\ [][Next]_vars

----------------------------------------------------------------------------
\* The single calls of the substitution chain, beside the keystrokes.

CallsInit ==
  /\ Construct({[idx \in RotorIndices |-> ScrambledMapping]},
               {[idx \in RotorIndices |-> 1]}, RingChoices,
               ReflectorChoices, PlugboardChoices)
  /\ cfgFile = NoFile
  /\ saved = NotSaved
  /\ last = NoCall
  /\ session = NoSession

CallsNext ==
  \/ \E num \in Inputs : EnigmaGetCall(num)
  \/ \E num \in Inputs : RotorAssemblyGetCall(num)
  \/ \E num \in Inputs : PlugboardGetCall(num)
  \/ \E num \in Inputs : ReflectorGetCall(num)
  \/ \E idx \in DOMAIN disc, num \in Inputs : RotorGetCall(idx, num)
  \/ \E idx \in DOMAIN disc, num \in Inputs : DiscGetCall(idx, num)

SpecCalls == CallsInit /\ [][CallsNext]_vars

----------------------------------------------------------------------------
\* Properties of the keystrokes.

\* Enigma.get(c) on the machine as it stands.
Here(c) ==
  EnigmaGet(plugboard, disc, rotation_count, notch, ringstellung, reflector, c)

\* C1: at every rotor position reached by keystrokes and for every letter c,
\* if Enigma.get(c) returns c' then Enigma.get(c') at the same settings and
\* the same rotor position returns c.
C1_ReversiblePerCharacter ==
  \A c \in ALPHABET_UNIVERSE :
     Here(c).out.status = "ok" =>
       Here(Here(c).out.value).out = Ok(c)

GetOps == {"Enigma.get", "RotorAssembly.get", "Plugboard.get", "Rotor.get",
           "RotorDisc.get", "Reflector.get"}

\* C3: a get call of the signal path with a number outside the alphabet
\* fails instead of returning a value, and no disc is rotated and no counter
\* changes by it.
C3_InvalidInputRejected ==
  [][ (last'.op \in GetOps /\ last'.num \notin ALPHABET_UNIVERSE)
        => (last'.status # "ok" /\ UNCHANGED <<disc, rotation_count>>) ]_vars

\* The substitution of Enigma.get(num) with the discs d: plugboard, signal
\* path, plugboard.
Substitution(d, num) ==
  LET in  == PlugboardGet(plugboard, num)
      mid == SignalPath(d, ringstellung, reflector, in.value)
  IN  PlugboardGet(plugboard, mid.value)

\* One step of the mechanism was made from the state before the call.
SteppedOnce ==
  /\ disc' = PrmRotate(disc, rotation_count, notch).disc
  /\ rotation_count' = PrmRotate(disc, rotation_count, notch).rc

\* C4: a RotorAssembly.get or Enigma.get call that returns has stepped the
\* mechanism exactly once, and the value it returns is the substitution
\* computed with the discs as they were before that step.
C4_StepAfterEncode ==
  [][ /\ (last'.op = "RotorAssembly.get" /\ last'.status = "ok")
           => /\ last'.value =
                   SignalPath(disc, ringstellung, reflector, last'.num).value
              /\ SteppedOnce
      /\ (last'.op = "Enigma.get" /\ last'.status = "ok")
           => /\ last'.value = Substitution(disc, last'.num).value
              /\ SteppedOnce ]_vars

\* A RotorAssembly.get call has returned a value that the discs as they are
\* after its step would not give.
C4_Witness ==
  /\ last.op = "RotorAssembly.get"
  /\ last.status = "ok"
  /\ last.num \in ALPHABET_UNIVERSE
  /\ SignalPath(disc, ringstellung, reflector, last.num).value # last.value

\* The rotors the turnover rule advances: rotor 0, and rotor idx when the
\* counter of rotor idx-1, read before the keystroke, is at its notch.
Advancing ==
  { idx \in DOMAIN disc :
      idx = 0 \/ (idx >= 1 /\ rotation_count[idx - 1] = notch[idx - 1]) }

\* C5: on each step of the mechanism exactly the rotors of the turnover rule
\* advance: the disc of each is rotated once and its counter, if it has
\* one, goes up by one modulo the alphabet size; the other discs and
\* counters stay.
C5_TurnoverRule ==
  [][ (\/ last'.op = "RotorAssembly.rotate"
       \/ (last'.op \in {"RotorAssembly.get", "Enigma.get"}
             /\ last'.num \in ALPHABET_UNIVERSE))
        => /\ \A idx \in DOMAIN disc :
                disc'[idx] = IF idx \in Advancing THEN DiscRotate(disc[idx])
                             ELSE disc[idx]
           /\ \A idx \in DOMAIN rotation_count :
                rotation_count'[idx] =
                  IF idx \in Advancing
                  THEN (rotation_count[idx] + 1) % ALPHABET_SIZE
                  ELSE rotation_count[idx] ]_vars

\* C8: the reflector is an involution without fixed points, in every state
\* reached by keystrokes.
C8_ReflectorInvolution ==
  \A i \in ALPHABET_UNIVERSE :
     /\ ReflectorGet(reflector, i).status = "ok"
     /\ ReflectorGet(reflector, ReflectorGet(reflector, i).value) = Ok(i)
     /\ ReflectorGet(reflector, i).value # i

----------------------------------------------------------------------------
\* A session on the machine: letters are typed from the start position and
\* their substitutes collected (Enigma.run's loop of get calls), the rotor
\* positions are set back to the start, and the collected text is typed
\* again.  A call that raises ends the session.

NewSession == [phase |-> "encode", start |-> disc, plain |-> <<>>,
               cipher |-> <<>>, decoded |-> <<>>]

\* The longest text typed in a session.
MaxText == ALPHABET_SIZE

SessionType(c) ==
  /\ session.phase = "encode"
  /\ Len(session.plain) < MaxText
  /\ \E r \in { Here(c) } :
       /\ disc' = r.disc
       /\ rotation_count' = r.rc
       /\ last' = Call("Enigma.get", NoValue, c, r.out)
       /\ session' = IF r.out.status = "ok"
                     THEN [session EXCEPT !.plain = Append(@, c),
                                          !.cipher = Append(@, r.out.value)]
                     ELSE [session EXCEPT !.plain = Append(@, c),
                                          !.phase = "failed"]
  /\ UNCHANGED <<static, store>>

\* The rotor positions set back: the discs as at the start, the counters 0.
SessionReset ==
  /\ session.phase = "encode"
  /\ session.plain # <<>>
  /\ disc' = session.start
  /\ rotation_count' = InitialRotationCount(NumRotors(disc))
  /\ session' = [session EXCEPT !.phase = "decode"]
  /\ UNCHANGED <<static, store, last>>

SessionDecode ==
  /\ session.phase = "decode"
  /\ \E r \in { Here(session.cipher[Len(session.decoded) + 1]) } :
       /\ disc' = r.disc
       /\ rotation_count' = r.rc
       /\ last' = Call("Enigma.get", NoValue,
                       session.cipher[Len(session.decoded) + 1], r.out)
       /\ session' =
            IF r.out.status # "ok" THEN [session EXCEPT !.phase = "failed"]
            ELSE [session EXCEPT
                    !.decoded = Append(@, r.out.value),
                    !.phase = IF Len(session.decoded) + 1 = Len(session.cipher)
                              THEN "done" ELSE "decode"]
  /\ UNCHANGED <<static, store>>

\* The machine of the round-trip test: three rotors with identity discs,
\* ring settings 0, notches 0, the reflector (0 1)(2 3)..., any plugboard.
FixedMachineInit ==
  Construct({[idx \in RotorIndices |-> IdentityMapping]},
            {[idx \in RotorIndices |-> 0]}, {0}, {PairSwapMapping},
            PlugboardChoices)

\* A chain of two rotors with the notch of rotor 0 at m, for every m.
TwoRotorInit ==
  Construct({[idx \in 0 .. 1 |-> ScrambledMapping]},
            {[idx \in 0 .. 1 |-> IF idx = 0 THEN m ELSE ALPHABET_SIZE] :
               m \in ALPHABET_UNIVERSE},
            RingChoices, {PairSwapMapping}, PlugboardChoices)

SessionInit ==
  /\ FixedMachineInit \/ TwoRotorInit
  /\ cfgFile = NoFile
  /\ saved = NotSaved
  /\ last = NoCall
  /\ session = NewSession

SessionNext ==
  \/ \E c \in ALPHABET_UNIVERSE : SessionType(c)
  \/ SessionReset
  \/ SessionDecode

SpecSession == SessionInit /\ [][SessionNext]_vars

\* The session runs on the machine of the round-trip test.
OnFixedMachine ==
  /\ session.start = [idx \in RotorIndices |-> IdentityMapping]
  /\ notch = [idx \in RotorIndices |-> 0]
  /\ ringstellung = [idx \in RotorIndices |-> 0]
  /\ reflector = PairSwapMapping

\* C2: on the fixed machine a session comes to its end with the text typed
\* the second time substituted back to the text typed first.
C2_RoundTripFixedMachine ==
  (OnFixedMachine /\ session.phase \in {"done", "failed"})
    => (session.phase = "done" /\ session.decoded = session.plain)

\* mapping after k calls of RotorDisc.rotate.
RECURSIVE RotateTimes(_, _)
RotateTimes(mapping, k) ==
  IF k = 0 THEN mapping ELSE RotateTimes(DiscRotate(mapping), k - 1)

\* C6: in a chain of two rotors started with counter 0, after k keystrokes
\* (k up to the alphabet size) rotor 0 has advanced k times and rotor 1 has
\* advanced once if k is above the notch of rotor 0, and not before: it
\* advances on keystroke notch + 1, once in the run.
C6_SteppingCadence ==
  (NumRotors(disc) = 2 /\ session.phase \in {"encode", "failed"})
    => /\ disc[0] = RotateTimes(session.start[0], Len(session.plain))
       /\ disc[1] = IF Len(session.plain) >= notch[0] + 1
                    THEN DiscRotate(session.start[1])
                    ELSE session.start[1]

----------------------------------------------------------------------------
\* Saving and loading between machines: a machine types, saves, and a machine
\* constructed later loads the file.

\* Two machines that differ in every part.  In neither does the last rotor
\* come to advance.
MachineDiscs(k) ==
  { [idx \in RotorIndices |->
       IF k = 1 THEN ScrambledMapping ELSE IdentityMapping] }

MachineNotches(k) ==
  { [idx \in RotorIndices |->
       IF k = 1 THEN (IF idx = 0 THEN ALPHABET_SIZE ELSE idx)
       ELSE (IF idx = 0 THEN 0 ELSE ALPHABET_SIZE)] }

MachineRings(k) == IF k = 1 THEN {1} ELSE {ALPHABET_SIZE}

MachineReflectors(k) == IF k = 1 THEN {PairSwapMapping} ELSE {ScrambledMapping}

MachineStrs(k) ==
  { str \in PlugboardChoices : Len(str) = k }

CfgInit ==
  /\ \E k \in {1, 2} :
       Construct(MachineDiscs(k), MachineNotches(k), MachineRings(k),
                 MachineReflectors(k), MachineStrs(k))
  /\ cfgFile = NoFile
  /\ saved = NotSaved
  /\ last = NoCall
  /\ session = NoSession

CfgNext ==
  \/ EnigmaGetCall(0)
  \/ SaveCfgCall
  \/ LoadCfgCall
  \/ \E k \in {1, 2} :
       NewEnigma(MachineDiscs(k), MachineNotches(k), MachineRings(k),
                 MachineReflectors(k), MachineStrs(k))

SpecCfg == CfgInit /\ [][CfgNext]_vars

\* C7: after a loadCfg of a file that a machine wrote with saveCfg, the
\* reflector and every rotor's disc, notch and ring setting are those the
\* saving machine had when it saved, and the plugboard is the one the
\* loading machine had before the load.
C7_ConfigRoundTrip ==
  [][ (last'.op = "Enigma.loadCfg" /\ cfgFile.present)
        => /\ last'.status = "ok"
           /\ reflector' = saved.reflector
           /\ disc' = saved.disc
           /\ notch' = saved.notch
           /\ ringstellung' = saved.ringstellung
           /\ plugboard' = plugboard
           /\ plugStr' = plugStr ]_vars

\* A machine has loaded the file of another: its rotor parts are the saved
\* ones, rotated discs included, and its plugboard is not the saved one.
C7_Witness ==
  /\ last.op = "Enigma.loadCfg"
  /\ saved.written
  /\ reflector = saved.reflector
  /\ disc = saved.disc
  /\ notch = saved.notch
  /\ plugboard # saved.plugboard
  /\ \A k \in {1, 2} : disc \notin MachineDiscs(k)

----------------------------------------------------------------------------
\* Every plugboard that construction can produce, on one set of rotors.

PlugboardInit ==
  /\ Construct({[idx \in RotorIndices |-> ScrambledMapping]},
               {[idx \in RotorIndices |-> 1]}, RingChoices,
               {PairSwapMapping}, getRandomPlugboardString)
  /\ cfgFile = NoFile
  /\ saved = NotSaved
  /\ last = NoCall
  /\ session = NoSession

PlugboardNext ==
  \/ \E num \in ALPHABET_UNIVERSE : EnigmaGetCall(num)
  \/ \E num \in Inputs : PlugboardGetCall(num)

SpecPlugboard == PlugboardInit /\ [][PlugboardNext]_vars

\* The letters of the k-th pair of the plugboard string, as numbers.
PairOf(k) == { charToNumber(plugStr[k][1]), charToNumber(plugStr[k][2]) }

Paired == UNION { PairOf(k) : k \in DOMAIN plugStr }

----------------------------------------------------------------------------
\* Rotor.rotate called on its own, beside the keystrokes.

RotateInit ==
  /\ Construct(DiscChoices, {[idx \in RotorIndices |-> 1]}, RingChoices,
               {PairSwapMapping}, MachineStrs(1))
  /\ cfgFile = NoFile
  /\ saved = NotSaved
  /\ last = NoCall
  /\ session = NoSession

RotateNext ==
  \/ \E idx \in DOMAIN disc : RotorRotateCall(idx)
  \/ \E num \in ALPHABET_UNIVERSE : EnigmaGetCall(num)

SpecRotate == RotateInit /\ [][RotateNext]_vars

\* C10 as stated: after Rotor.rotate the disc gives at i what it gave at
\* i + 1 before, a shift to the left.
C10_RotateLeft ==
  [][ last'.op = "Rotor.rotate"
        => \A i \in ALPHABET_UNIVERSE :
              DiscGet(disc'[last'.idx], i)
                = DiscGet(disc[last'.idx], (i + 1) % ALPHABET_SIZE) ]_vars

\* C10 amended: after Rotor.rotate the disc gives at i what it gave at
\* i - 1 before, a shift to the right: what was at the last index is at
\* index 0.  The other discs are as before.
C10_RotateRight ==
  [][ last'.op = "Rotor.rotate"
        => /\ \A i \in ALPHABET_UNIVERSE :
                DiscGet(disc'[last'.idx], i)
                  = DiscGet(disc[last'.idx],
                            (i + ALPHABET_SIZE - 1) % ALPHABET_SIZE)
           /\ DiscGet(disc'[last'.idx], 0)
                = DiscGet(disc[last'.idx], ALPHABET_SIZE - 1)
           /\ \A idx \in DOMAIN disc \ {last'.idx} : disc'[idx] = disc[idx] ]_vars

\* An identity disc has been rotated once: it now gives the last letter at
\* index 0 and 0 at index 1.
C10_Witness ==
  /\ last.op = "Rotor.rotate"
  /\ DiscGet(disc[last.idx], 0) = Ok(ALPHABET_SIZE - 1)
  /\ DiscGet(disc[last.idx], 1) = Ok(0)

----------------------------------------------------------------------------
\* The notches and the period of the mechanism, under keystrokes.

\* C11: the notch of the ring of every rotor lies in 0 .. ALPHABET_SIZE - 1,
\* at construction and after every keystroke.
C11_NotchInRange ==
  \A idx \in DOMAIN notch : notch[idx] \in ALPHABET_UNIVERSE

RECURSIVE Power(_, _)
Power(base, k) == IF k = 0 THEN 1 ELSE base * Power(base, k - 1)

\* The counters after k further steps of the mechanism from discs d and
\* counters rc, whether or not a step raises.
RECURSIVE CountersAfter(_, _, _)
CountersAfter(d, rc, k) ==
  IF k = 0 THEN rc
  ELSE CountersAfter(PrmRotate(d, rc, notch).disc,
                     PrmRotate(d, rc, notch).rc, k - 1)

\* C13: in every state reached by keystrokes a step of the mechanism can be
\* taken and does not fail, and the counters after
\* ALPHABET_SIZE ^ (NUM_ROTORS - 1) further steps are the counters of that
\* state.
C13_SteppingPeriod ==
  /\ PrmRotate(disc, rotation_count, notch).status = "ok"
  /\ CountersAfter(disc, rotation_count,
                   Power(ALPHABET_SIZE, NUM_ROTORS - 1)) = rotation_count

----------------------------------------------------------------------------
\* Loading files that saveCfg did not write.

\* The discs, notches and ring setting of the machine that loads: every
\* notch and the ring setting inside the alphabet.
LoaderNotches == { [idx \in RotorIndices |-> (idx + 1) % ALPHABET_SIZE] }

\* What saveCfg would write for that machine.
WellFormedFile ==
  EnigmaSaveCfg({}, [idx \in RotorIndices |-> ScrambledMapping],
                [idx \in RotorIndices |-> (idx + 1) % ALPHABET_SIZE],
                [idx \in RotorIndices |-> 1], PairSwapMapping, <<>>)

\* The file without one option.
DropOption(cfg, section, key) ==
  { t \in cfg : ~(t[1] = section /\ t[2] = key) }

\* A list of the alphabet's length that is no permutation.
ConstantMapping == [x \in ALPHABET_UNIVERSE |-> 0]

\* A number past the alphabet.
OutOfRange == 2 * ALPHABET_SIZE

\* One file for each way of being malformed: a rotor section without its
\* notch, a reflector section with its list under another name, a notch or
\* a ring setting out of range, a disc or a reflector that is no
\* permutation.
MalformedFiles ==
  { DropOption(WellFormedFile, RotorSectionName(1), "notch"),
    SetOption(DropOption(WellFormedFile, "Reflector", "config"),
              "Reflector", "mapping", Dumps(PairSwapMapping)),
    SetOption(WellFormedFile, RotorSectionName(0), "notch",
              << IntToStr(OutOfRange) >>),
    SetOption(WellFormedFile, RotorSectionName(NUM_ROTORS - 1), "ringstellung",
              << IntToStr(OutOfRange) >>),
    SetOption(WellFormedFile, RotorSectionName(0), "config",
              Dumps(ConstantMapping)),
    SetOption(WellFormedFile, "Reflector", "config", Dumps(ConstantMapping)) }

MalformedInit ==
  /\ Construct({[idx \in RotorIndices |-> ScrambledMapping]}, LoaderNotches,
               RingChoices, {PairSwapMapping}, MachineStrs(1))
  /\ cfgFile = NoFile
  /\ saved = NotSaved
  /\ last = NoCall
  /\ session = NoSession

MalformedNext ==
  \/ \E content \in MalformedFiles \cup {WellFormedFile} :
        ExternalWrite(content)
  \/ LoadCfgCall
  \/ EnigmaGetCall(0)

SpecMalformed == MalformedInit /\ [][MalformedNext]_vars

\* The options loadCfg reads: the reflector's list, and each rotor's ring
\* setting, list and notch.
RequiredOptions ==
  { <<"Reflector", "config">> } \cup
  { <<RotorSectionName(idx), key>> :
      idx \in RotorIndices, key \in {"ringstellung", "config", "notch"} }

\* A section of the file lacks a required option, or holds a notch or ring
\* setting outside the alphabet, or a list that is no permutation of the
\* alphabet.
Malformed(content) ==
  \E opt \in RequiredOptions :
     \/ opt[1] \in Sections(content) /\ ~HasOption(content, opt[1], opt[2])
     \/ /\ HasOption(content, opt[1], opt[2])
        /\ IF opt[2] = "config"
           THEN Loads(GetOption(content, opt[1], opt[2])) \notin Bijections
           ELSE StrToInt(GetOption(content, opt[1], opt[2])[1])
                  \notin ALPHABET_UNIVERSE

\* C12: a loadCfg of a file that is there and is malformed ends in an
\* error: no load of such a file returns normally.
C12_MalformedSurfaced ==
  [][ (last'.op = "Enigma.loadCfg" /\ cfgFile.present
         /\ Malformed(cfgFile.content))
        => last'.status # "ok" ]_vars

----------------------------------------------------------------------------
\* Runs of Rotor.rotate on one rotor, for every disc shuffle() can leave in
\* rotor 0.

\* A run begins: the discs as they are, no call made yet.
NewRun == [NoSession EXCEPT !.phase = "rotate", !.start = disc]

CycleInit ==
  /\ Construct({ [idx \in RotorIndices |->
                    IF idx = 0 THEN mapping ELSE ScrambledMapping] :
                  mapping \in Bijections },
               {[idx \in RotorIndices |-> 1]}, RingChoices,
               {PairSwapMapping}, MachineStrs(1))
  /\ cfgFile = NoFile
  /\ saved = NotSaved
  /\ last = NoCall
  /\ session = NewRun

\* rotor.rotate() once more in the run; session.plain lists the rotor of
\* each call of the run.  A run is on one rotor and ends after
\* ALPHABET_SIZE calls.
RotateInRun(idx) ==
  /\ session.phase = "rotate"
  /\ Len(session.plain) < ALPHABET_SIZE
  /\ \A k \in DOMAIN session.plain : session.plain[k] = idx
  /\ disc' = [disc EXCEPT ![idx] = DiscRotate(disc[idx])]
  /\ session' = [session EXCEPT !.plain = Append(session.plain, idx)]
  /\ last' = Call("Rotor.rotate", idx, NoValue, Ok(NoValue))
  /\ UNCHANGED <<rotation_count, static, store>>

CycleNext == \E idx \in DOMAIN disc : RotateInRun(idx)

SpecCycle == CycleInit /\ [][CycleNext]_vars

\* C14: after ALPHABET_SIZE consecutive calls of rotate() on a disc, the
\* disc gives at every index i what it gave there before the first call.
C14_RotationCycle ==
  (session.phase = "rotate" /\ Len(session.plain) = ALPHABET_SIZE)
    => \A i \in ALPHABET_UNIVERSE :
          DiscGet(disc[session.plain[1]], i)
            = DiscGet(session.start[session.plain[1]], i)

\* A full run has been made on a disc that was neither the identity nor the
\* scrambled disc, and one call before the end the disc was not as at the
\* start.
C14_Witness ==
  /\ session.phase = "rotate"
  /\ Len(session.plain) = ALPHABET_SIZE
  /\ session.plain[1] = 0
  /\ session.start[0] \notin {IdentityMapping, ScrambledMapping}
  /\ disc[0] = session.start[0]
  /\ DiscRotate(disc[0]) # disc[0]

\* m is a bijection of the alphabet onto itself.
IsBijection(m) ==
  /\ DOMAIN m = ALPHABET_UNIVERSE
  /\ \A i \in ALPHABET_UNIVERSE : m[i] \in ALPHABET_UNIVERSE
  /\ \A i, j \in ALPHABET_UNIVERSE : m[i] = m[j] => i = j

\* C15: in every state reached from construction by keystrokes and disc
\* rotations, every disc, the reflector and the plugboard are bijections of
\* the alphabet onto itself.
C15_Bijective ==
  /\ \A idx \in DOMAIN disc : IsBijection(disc[idx])
  /\ IsBijection(reflector)
  /\ IsBijection(plugboard)

\* Keystrokes have advanced rotors 0 and 1, and a disc has just been rotated
\* on its own.
C15_Witness ==
  /\ last.op = "Rotor.rotate"
  /\ rotation_count[0] > 0
  /\ rotation_count[1] > 0
  /\ \A idx \in DOMAIN disc : disc[idx] \notin {IdentityMapping, ScrambledMapping}

----------------------------------------------------------------------------
\* The counters of the mechanism across saving and loading.

\* C16: saveCfg writes no counter of the mechanism (the file holds the
\* options loadCfg reads and the plugboard's string, nothing else) and
\* leaves the counters as they are; loadCfg leaves every counter as it is;
\* so after a load into a machine just constructed every counter is 0.
C16_CountersNotPersisted ==
  [][ /\ last'.op = "Enigma.saveCfg"
           => /\ rotation_count' = rotation_count
              /\ \A t \in cfgFile'.content :
                    <<t[1], t[2]>> \in
                       RequiredOptions \cup { <<"Plugboard", "settings">> }
      /\ last'.op = "Enigma.loadCfg" => rotation_count' = rotation_count
      /\ (last.op = "Enigma" /\ last'.op = "Enigma.loadCfg")
           => \A idx \in DOMAIN rotation_count' : rotation_count'[idx] = 0
    ]_vars

\* A machine has loaded the file of a machine that had typed before it
\* saved: its discs are the saved ones, rotated away from those of both
\* machines at construction, and its counters are all 0.
C16_Witness ==
  /\ last.op = "Enigma.loadCfg"
  /\ last.status = "ok"
  /\ saved.written
  /\ disc = saved.disc
  /\ \A k \in {1, 2} : disc \notin MachineDiscs(k)
  /\ \A idx \in DOMAIN rotation_count : rotation_count[idx] = 0

\* C17: a loadCfg when the file does not exist raises nothing and leaves
\* the reflector, every disc, notch and ring setting, the plugboard and the
\* counters of the mechanism as they were.
C17_LoadNoFile ==
  [][ (last'.op = "Enigma.loadCfg" /\ ~cfgFile.present)
        => /\ last'.status = "ok"
           /\ reflector' = reflector
           /\ disc' = disc
           /\ notch' = notch
           /\ ringstellung' = ringstellung
           /\ plugboard' = plugboard
           /\ plugStr' = plugStr
           /\ rotation_count' = rotation_count ]_vars

\* loadCfg has been called with no file there, on a machine that had typed.
C17_Witness ==
  /\ last.op = "Enigma.loadCfg"
  /\ ~cfgFile.present
  /\ \E idx \in DOMAIN rotation_count : rotation_count[idx] > 0

----------------------------------------------------------------------------
\* The path of the signal and the frame of a keystroke.

\* Rk(x): the disc of rotor k, as it stands, at (x + ring setting) mod A.
ThroughRotor(k, x) == disc[k][(x + ringstellung[k]) % ALPHABET_SIZE]

\* R{N-1}(... R1(R0(x)) ...), from rotor k on.
RECURSIVE Inward(_, _)
Inward(k, x) ==
  IF k \notin DOMAIN disc THEN x ELSE Inward(k + 1, ThroughRotor(k, x))

\* R0(R1(... R{N-1}(x) ...)), from rotor k down.
RECURSIVE Outward(_, _)
Outward(k, x) ==
  IF k \notin DOMAIN disc THEN x ELSE Outward(k - 1, ThroughRotor(k, x))

\* C18: the value a call Enigma.get(i) returns, for i in the alphabet, is
\* P(R0(R1(... R{N-1}(F(R{N-1}(... R1(R0(P(i))) ...))) ...))) with the
\* plugboard P, the reflector F and the discs as they are before the call.
C18_SignalPathOrder ==
  [][ (last'.op = "Enigma.get" /\ last'.num \in ALPHABET_UNIVERSE
         /\ last'.status = "ok")
        => last'.value =
             plugboard[Outward(NUM_ROTORS - 1,
                               reflector[Inward(0, plugboard[last'.num])])]
    ]_vars

\* A call has returned a letter other than the one typed, on a machine
\* whose rotors 0 and 1 have advanced, so that the three discs differ.
C18_Witness ==
  /\ last.op = "Enigma.get"
  /\ last.status = "ok"
  /\ last.num \in ALPHABET_UNIVERSE
  /\ last.value # last.num
  /\ rotation_count[1] > 0
  /\ disc[0] # disc[NUM_ROTORS - 1]
  /\ disc[0] # disc[1]

\* C19: a call of Enigma.get that returns leaves the reflector, the
\* plugboard, every notch and every ring setting as they were, and the disc
\* and the counter of every rotor that the turnover rule does not advance.
C19_KeystrokeFrame ==
  [][ (last'.op = "Enigma.get" /\ last'.status = "ok")
        => /\ reflector' = reflector
           /\ plugboard' = plugboard
           /\ notch' = notch
           /\ ringstellung' = ringstellung
           /\ \A idx \in DOMAIN disc \ Advancing : disc'[idx] = disc[idx]
           /\ \A idx \in DOMAIN rotation_count \ Advancing :
                 rotation_count'[idx] = rotation_count[idx] ]_vars

\* A call has returned on a machine of which rotor 0 has advanced and
\* rotor 1 has not: the counter of rotor 1 is 0 and its disc is the one of
\* construction.
C19_Witness ==
  /\ last.op = "Enigma.get"
  /\ last.status = "ok"
  /\ rotation_count[0] > 0
  /\ rotation_count[1] = 0
  /\ disc[1] \in {IdentityMapping, ScrambledMapping}
  /\ disc[0] \notin {IdentityMapping, ScrambledMapping}

----------------------------------------------------------------------------
\* Keystrokes on a machine whose discs at construction are kept for
\* comparison.

\* The discs of construction, before any keystroke.
AtConstruction == [NoSession EXCEPT !.phase = "typing", !.start = disc]

AgreementInit ==
  /\ Construct(DiscChoices, NotchChoices, RingChoices, {PairSwapMapping},
               MachineStrs(1))
  /\ cfgFile = NoFile
  /\ saved = NotSaved
  /\ last = NoCall
  /\ session = AtConstruction

SpecAgreement == AgreementInit /\ [][Next]_vars

\* C20: in every state reached from construction by keystrokes, every
\* counter of the mechanism, those of rotors 0 .. N-2, lies in
\* 0 .. ALPHABET_SIZE - 1, and the disc of its rotor is the disc of
\* construction rotated step by step as many times as the counter says.
C20_CounterDiscAgreement ==
  \A idx \in 0 .. (NUM_ROTORS - 2) :
     /\ idx \in DOMAIN rotation_count
     /\ rotation_count[idx] \in ALPHABET_UNIVERSE
     /\ disc[idx] = RotateTimes(session.start[idx], rotation_count[idx])

\* Rotor 0 has advanced and rotor 1 more than once, and the last keystroke
\* returned: the discs of both are away from those of construction.
C20_Witness ==
  /\ last.op = "Enigma.get"
  /\ last.status = "ok"
  /\ rotation_count[0] > 0
  /\ rotation_count[1] > 1
  /\ disc[0] # session.start[0]
  /\ disc[1] # session.start[1]

====
